---------------------------- MODULE Spec2Model ----------------------------
(***************************************************************************)
(* A model of the BlenderBIM export glue:                                  *)
(*   bim/export_ifc.py        IfcExporter (export, set_header, the sync    *)
(*                            of placements, containers, deletions and     *)
(*                            edited objects)                              *)
(*   bim/module/qto/operator.py   the quantity take-off operators          *)
(*   core/type.py             assign_type                                  *)
(*                                                                         *)
(* Floats are fixed point numbers: the integer v stands for v / One.       *)
(* Calls into Blender, IfcOpenShell and the blenderbim core are recorded   *)
(* in the log `calls`, in the order the code makes them.                   *)
(***************************************************************************)
EXTENDS Integers, Sequences, FiniteSets, TLC

VARIABLES
    pc,                 \* position of the running operation
    calls,              \* log of the calls the running operation has made
    schema,             \* self.file.schema
    unit_scale,         \* self.unit_scale, a ratio [num, den]
    props,              \* bpy.context.scene.BIMGeoreferenceProperties
    objects,            \* the Blender data blocks (objects and materials), by handle
    collections,        \* bpy.data.collections, in their order
    elements,           \* the IFC file: entity id -> entity
    id_map,             \* IfcStore.id_map, in insertion order: <<id, handle>> pairs
    edited_objs,        \* IfcStore.edited_objs
    parent_collection,  \* sync_object_container's local of that name
    settings,           \* IfcExportSettings and BIMProjectProperties.is_authoring
    idx,                \* position of the iteration over id_map
    to_delete,          \* sync_object_placements_and_deletions' local list
    pending,            \* the copy sync_edited_objects iterates, and what is left of it
    header,             \* file.wrapped_data.header.file_name
    runs,               \* number of export() calls started
    selected_objects,   \* context.selected_objects
    qto,                \* BIMQtoProperties, and the operator that ran with its return value
    type_in             \* the arguments and tool answers of core.type.assign_type

sceneVars  == <<schema, unit_scale, props, objects, collections, elements, id_map, edited_objs>>
exportVars == <<settings, idx, to_delete, pending, header, runs>>
qtoVars    == <<selected_objects, qto>>
vars == <<pc, calls, sceneVars, parent_collection, exportVars, qtoVars, type_in>>

None == 0

---------------------------------------------------------------------------
(* Fixed point numbers and 4x4 matrices                                    *)

\* 1.0 in fixed point: an entry of a numpy float matrix is v / One.
One == 100000

\* atol=0.0001 of the np.allclose call, in fixed point.
Atol == 10

\* numpy's default rtol=1e-05 of np.allclose, as its inverse.
RtolInv == 100000

Abs(x) == IF x < 0 THEN -x ELSE x

Idx4 == 1..4

\* A 4x4 matrix from a 3x3 rotation (rows) and a translation.
Mat(r, t) ==
    << <<r[1][1], r[1][2], r[1][3], t[1]>>,
       <<r[2][1], r[2][2], r[2][3], t[2]>>,
       <<r[3][1], r[3][2], r[3][3], t[3]>>,
       <<0, 0, 0, One>> >>

RotId == << <<One, 0, 0>>, <<0, One, 0>>, <<0, 0, One>> >>
RotZ90 == << <<0, -One, 0>>, <<One, 0, 0>>, <<0, 0, One>> >>

Identity == Mat(RotId, <<0, 0, 0>>)

\* element.ObjectPlacement is None.
NoPlacement == << >>

\* ifcopenshell.util.placement.get_local_placement: the identity for a
\* missing placement, the placement's matrix otherwise.
GetLocalPlacement(plc) == IF plc = NoPlacement THEN Identity ELSE plc

\* ifc_matrix[i][3] *= self.unit_scale, for the three translation entries.
ScaleTranslation(m, s) ==
    [i \in Idx4 |->
        [j \in Idx4 |->
            IF j = 4 /\ i <= 3 THEN (m[i][j] * s.num) \div s.den ELSE m[i][j]]]

\* The inverse scaling, used by the modelled edit_object_placement.
UnscaleTranslation(m, s) ==
    [i \in Idx4 |->
        [j \in Idx4 |->
            IF j = 4 /\ i <= 3 THEN (m[i][j] * s.den) \div s.num ELSE m[i][j]]]

\* ifcopenshell.util.geolocation.global2local for an axis-aligned map
\* conversion: the inverse of [[a,-b,0,e],[b,a,0,n],[0,0,1,h],[0,0,0,1]]
\* applied on the left; a, b are plain integers with a*a + b*b = 1.
Global2Local(m, e, n, h, a, b) ==
    LET rot == << <<a, b, 0>>, <<-b, a, 0>>, <<0, 0, 1>> >>
        tr  == << -(a * e + b * n), -((-b) * e + a * n), -h >>
    IN [i \in Idx4 |->
          [j \in Idx4 |->
              IF i = 4 THEN m[4][j]
              ELSE rot[i][1] * m[1][j] + rot[i][2] * m[2][j] + rot[i][3] * m[3][j]
                   + tr[i] * (m[4][j] \div One)]]

\* ifcopenshell.util.geolocation.local2global, the inverse of Global2Local.
Local2Global(m, e, n, h, a, b) ==
    LET rot == << <<a, -b, 0>>, <<b, a, 0>>, <<0, 0, 1>> >>
        tr  == << e, n, h >>
    IN [i \in Idx4 |->
          [j \in Idx4 |->
              IF i = 4 THEN m[4][j]
              ELSE rot[i][1] * m[1][j] + rot[i][2] * m[2][j] + rot[i][3] * m[3][j]
                   + tr[i] * (m[4][j] \div One)]]

\* numpy.isclose on one entry: |a - b| <= atol + rtol * |b|.
\* With integers, d - atol <= |b| / RtolInv iff d <= atol + (|b| div RtolInv).
IsClose(a, b) == Abs(a - b) <= Atol + (Abs(b) \div RtolInv)

\* np.allclose(a, b, atol=0.0001)
AllClose(a, b) == \A i \in Idx4 : \A j \in Idx4 : IsClose(a[i][j], b[i][j])

---------------------------------------------------------------------------
(* The IFC schema: is_a                                                    *)

\* The direct supertype of an entity class in a schema ("" at the root).
Supertype(sch, cls) ==
    CASE cls = "IfcProject" -> IF sch = "IFC2X3" THEN "IfcObject" ELSE "IfcContext"
      [] cls = "IfcProjectLibrary" -> "IfcContext"
      [] cls = "IfcContext" -> "IfcObjectDefinition"
      [] cls = "IfcObject" -> "IfcObjectDefinition"
      [] cls = "IfcProduct" -> "IfcObject"
      [] cls = "IfcElement" -> "IfcProduct"
      [] cls = "IfcWall" -> "IfcElement"
      [] cls = "IfcElementAssembly" -> "IfcElement"
      [] cls = "IfcSpatialStructureElement" -> "IfcProduct"
      [] cls = "IfcSite" -> "IfcSpatialStructureElement"
      [] cls = "IfcBuildingStorey" -> "IfcSpatialStructureElement"
      [] cls = "IfcGrid" -> "IfcProduct"
      [] cls = "IfcAnnotation" -> "IfcProduct"
      [] cls = "IfcTypeObject" -> "IfcObjectDefinition"
      [] cls = "IfcWallType" -> "IfcTypeObject"
      [] OTHER -> ""

RECURSIVE IsA(_, _, _)
\* element.is_a(name): the class or one of its supertypes is `name`.
IsA(sch, cls, name) ==
    IF cls = "" THEN FALSE
    ELSE IF cls = name THEN TRUE
    ELSE IsA(sch, Supertype(sch, cls), name)

\* hasattr(element, "ObjectPlacement"): an attribute of IfcProduct.
HasObjectPlacement(sch, cls) == IsA(sch, cls, "IfcProduct")

---------------------------------------------------------------------------
(* IfcExporter.sync_object_placement                                       *)

\* float(props.blender_eastings) * self.unit_scale, and its two siblings.
Scaled(v, s) == (v * s.num) \div s.den

\* ifc_matrix as sync_object_placement computes it for object record o,
\* whose element is e: the local placement with its translation scaled,
\* then moved to Blender's local frame when the object carries the offset.
IfcMatrix(o, e, s, p) ==
    LET scaled == ScaleTranslation(GetLocalPlacement(e.ObjectPlacement), s)
    IN IF p.has_blender_offset /\ o.blender_offset_type = "OBJECT_PLACEMENT"
       THEN Global2Local(scaled,
                         Scaled(p.blender_eastings, s),
                         Scaled(p.blender_northings, s),
                         Scaled(p.blender_orthogonal_height, s),
                         p.blender_x_axis_abscissa,
                         p.blender_x_axis_ordinate)
       ELSE scaled

\* Whether sync_object_placement calls edit_object_placement for o.
ShouldEditPlacement(sch, o, e, s, p) ==
    /\ HasObjectPlacement(sch, e.class)
    /\ ~AllClose(IfcMatrix(o, e, s, p), o.matrix_world)

\* The placement blenderbim.core.geometry.edit_object_placement stores: the
\* one whose ifc_matrix is the object's world matrix.
PlacementOf(o, s, p) ==
    LET global == IF p.has_blender_offset /\ o.blender_offset_type = "OBJECT_PLACEMENT"
                  THEN Local2Global(o.matrix_world,
                                    Scaled(p.blender_eastings, s),
                                    Scaled(p.blender_northings, s),
                                    Scaled(p.blender_orthogonal_height, s),
                                    p.blender_x_axis_abscissa,
                                    p.blender_x_axis_ordinate)
                  ELSE o.matrix_world
    IN UnscaleTranslation(global, s)

\* The calls one sync_object_placement(obj) makes, for a live object h.
PlacementCalls(h) ==
    LET o == objects[h]
        e == elements[o.ifc_definition_id]
    IN IF ShouldEditPlacement(schema, o, e, unit_scale, props)
       THEN << [api |-> "edit_object_placement", obj |-> h] >>
       ELSE << >>

\* The file after one sync_object_placement(obj), for a live object h.
ElementsAfterPlacement(els, h) ==
    LET o == objects[h]
        e == els[o.ifc_definition_id]
    IN IF ShouldEditPlacement(schema, o, e, unit_scale, props)
       THEN [els EXCEPT ![o.ifc_definition_id].ObjectPlacement =
                            PlacementOf(o, unit_scale, props)]
       ELSE els

\* One call of sync_object_placement on the object of handle 1. Reading
\* matrix_world of a removed object raises ReferenceError.
SyncObjectPlacement ==
    /\ pc = "sync_object_placement"
    /\ IF ~objects[1].alive
       THEN /\ pc' = "raised"
            /\ UNCHANGED <<calls, elements>>
       ELSE /\ pc' = "done"
            /\ calls' = calls \o PlacementCalls(1)
            /\ elements' = ElementsAfterPlacement(elements, 1)
    /\ UNCHANGED <<schema, unit_scale, props, objects, collections, id_map, edited_objs>>
    /\ UNCHANGED <<parent_collection, exportVars, qtoVars, type_in>>

---------------------------------------------------------------------------
(* IfcExporter.sync_object_container                                       *)

\* bpy.data.collections.get(name): the position of the collection of that
\* name, None when there is none.
CollectionsGet(colls, name) ==
    IF \E i \in 1..Len(colls) : colls[i].name = name
    THEN CHOOSE i \in 1..Len(colls) : colls[i].name = name
    ELSE None

\* bpy.data.objects.get(name): the handle of the live object of that name,
\* None when there is none. Materials and removed objects are not in
\* bpy.data.objects.
ObjectsGet(objs, name) ==
    LET found == { h \in DOMAIN objs :
                     objs[h].kind = "Object" /\ objs[h].alive /\ objs[h].name = name }
    IN IF found = {} THEN None ELSE CHOOSE h \in found : TRUE

\* [c for c in bpy.data.collections if c.children.get(name)], as positions.
ParentsOf(colls, name) ==
    SelectSeq([i \in 1..Len(colls) |-> i], LAMBDA i : name \in colls[i].children)

\* The early return for the project (IFC2X3) or any context (other schemas).
IsContext(sch, cls) ==
    IF sch = "IFC2X3" THEN IsA(sch, cls, "IfcProject") ELSE IsA(sch, cls, "IfcContext")

\* The condition under which the parent is looked up in the collection tree.
InSpatialTree(sch, cls, element_collection) ==
    \/ (IsA(sch, cls, "IfcElement") /\ element_collection # None)
    \/ IsA(sch, cls, "IfcSpatialStructureElement")
    \/ IsA(sch, cls, "IfcGrid")

\* Mutant: out of the spatial tree, the object's first collection is taken.
ParentCollectionFallsBack(sch, colls, o, cls) ==
    LET element_collection == CollectionsGet(colls, o.name)
        parents == IF element_collection = None THEN << >>
                   ELSE ParentsOf(colls, colls[element_collection].name)
    IN IF InSpatialTree(sch, cls, element_collection) /\ parents # << >>
       THEN colls[parents[1]].name
       ELSE o.users_collection[1]

\* The name of the parent collection sync_object_container settles on for
\* object record o of class cls, "" when it returns before ("out of the
\* spatial tree": element_collection is None, or no collection has it as a
\* child, both caught by the bare except).
ParentCollection(sch, colls, o, cls) ==
    LET element_collection == CollectionsGet(colls, o.name)
    IN IF InSpatialTree(sch, cls, element_collection)
       THEN IF element_collection = None
            THEN ""
            ELSE LET parents == ParentsOf(colls, colls[element_collection].name)
                 IN IF parents = << >> THEN "" ELSE colls[parents[1]].name
       ELSE o.users_collection[1]

\* Mutant: the element's own class is not looked at.
AssignmentIgnoresElement(sch, cls, pcls, parent, container, aggregate) ==
    IF IsA(sch, pcls, "IfcSpatialStructureElement")
    THEN IF parent # container THEN "assign_container" ELSE "none"
    ELSE IF parent # aggregate THEN "assign_object" ELSE "none"

\* Mutant: the parent is compared with the aggregate in both branches.
AssignmentWrongRelation(sch, cls, pcls, parent, container, aggregate) ==
    IF IsA(sch, pcls, "IfcSpatialStructureElement")
       /\ ~IsA(sch, cls, "IfcSpatialStructureElement")
    THEN IF parent # aggregate THEN "assign_container" ELSE "none"
    ELSE IF parent # aggregate THEN "assign_object" ELSE "none"

\* The assignment sync_object_container makes for an element of class cls
\* with the parent entity `parent` of class pcls: which API, if any.
Assignment(sch, cls, pcls, parent, container, aggregate) ==
    IF IsA(sch, pcls, "IfcSpatialStructureElement")
       /\ ~IsA(sch, cls, "IfcSpatialStructureElement")
    THEN IF parent # container THEN "assign_container" ELSE "none"
    ELSE IF parent # aggregate THEN "assign_object" ELSE "none"

\* What one sync_object_container(guid, obj) does for the live object h in
\* the file els: the parent collection it settles on and the call it makes.
ContainerSync(els, h) ==
    LET o == objects[h]
        element == els[o.ifc_definition_id]
        nothing == [parent_collection |-> "", call |-> "none", parent_obj |-> None]
    IN IF IsContext(schema, element.class)
       THEN nothing
       ELSE LET pcoll == ParentCollection(schema, collections, o, element.class)
                parent_obj == ObjectsGet(objects, pcoll)
            IN IF pcoll = ""
               THEN nothing
               ELSE IF parent_obj = None
               THEN [nothing EXCEPT !.parent_collection = pcoll]
               ELSE IF objects[parent_obj].ifc_definition_id = 0
               THEN [nothing EXCEPT !.parent_collection = pcoll]
               ELSE LET parent == objects[parent_obj].ifc_definition_id
                    IN [parent_collection |-> pcoll,
                        call |-> Assignment(schema, element.class, els[parent].class,
                                            parent, element.container, element.aggregate),
                        parent_obj |-> parent_obj]

\* The calls one sync_object_container makes for the live object h.
ContainerCalls(els, h) ==
    LET r == ContainerSync(els, h)
    IN CASE r.call = "assign_container" ->
              << [api |-> "assign_container", structure_obj |-> r.parent_obj, element_obj |-> h] >>
         [] r.call = "assign_object" ->
              << [api |-> "assign_object", relating_obj |-> r.parent_obj, related_obj |-> h] >>
         [] OTHER -> << >>

\* The file after one sync_object_container for the live object h:
\* spatial.assign_container makes the parent the element's container,
\* aggregate.assign_object makes it the element's aggregate.
ElementsAfterContainer(els, h) ==
    LET r == ContainerSync(els, h)
        id == objects[h].ifc_definition_id
    IN CASE r.call = "assign_container" ->
              [els EXCEPT ![id].container = objects[r.parent_obj].ifc_definition_id]
         [] r.call = "assign_object" ->
              [els EXCEPT ![id].aggregate = objects[r.parent_obj].ifc_definition_id]
         [] OTHER -> els

\* One call of sync_object_container on the object of handle 1. Reading
\* BIMObjectProperties of a removed object raises ReferenceError.
SyncObjectContainer ==
    /\ pc = "sync_object_container"
    /\ IF ~objects[1].alive
       THEN /\ pc' = "raised"
            /\ UNCHANGED <<calls, elements, parent_collection>>
       ELSE /\ pc' = "done"
            /\ calls' = calls \o ContainerCalls(elements, 1)
            /\ elements' = ElementsAfterContainer(elements, 1)
            /\ parent_collection' = ContainerSync(elements, 1).parent_collection
    /\ UNCHANGED <<schema, unit_scale, props, objects, collections, id_map, edited_objs>>
    /\ UNCHANGED <<exportVars, qtoVars, type_in>>

---------------------------------------------------------------------------
(* Python numbers, round and str                                           *)

\* A Python number: an int or a float of value v / One.
PyInt(n) == [float |-> FALSE, v |-> n * One]
PyFloat(v) == [float |-> TRUE, v |-> v]

\* a + b: a float as soon as one operand is.
PyAdd(a, b) == [float |-> a.float \/ b.float, v |-> a.v + b.v]

\* The fixed point value of one thousandth.
Milli == One \div 1000

\* round(x, 3) of a number x >= 0: to the nearest thousandth, a tie to the
\* even one; an int is returned as it is.
Round3(x) ==
    IF ~x.float THEN x
    ELSE LET q == x.v \div Milli
             r == x.v % Milli
             up == \/ 2 * r > Milli
                   \/ (2 * r = Milli /\ q % 2 = 1)
         IN [float |-> TRUE, v |-> (IF up THEN q + 1 ELSE q) * Milli]

Digit(d) == CASE d = 0 -> "0" [] d = 1 -> "1" [] d = 2 -> "2" [] d = 3 -> "3"
              [] d = 4 -> "4" [] d = 5 -> "5" [] d = 6 -> "6" [] d = 7 -> "7"
              [] d = 8 -> "8" [] d = 9 -> "9"

RECURSIVE IntStr(_)
\* str(n) of an int n >= 0.
IntStr(n) == IF n < 10 THEN Digit(n) ELSE IntStr(n \div 10) \o Digit(n % 10)

\* The decimals of str(x) for k thousandths, 0 <= k < 1000: without
\* trailing zeros, and at least one digit.
Decimals(k) ==
    IF k % 100 = 0 THEN Digit(k \div 100)
    ELSE IF k % 10 = 0 THEN Digit(k \div 100) \o Digit((k \div 10) % 10)
    ELSE Digit(k \div 100) \o Digit((k \div 10) % 10) \o Digit(k % 10)

\* str(x) of a number x >= 0 that is a whole number of thousandths.
Str(x) ==
    IF ~x.float THEN IntStr(x.v \div One)
    ELSE IntStr(x.v \div One) \o "." \o Decimals((x.v % One) \div Milli)

---------------------------------------------------------------------------
(* bim/module/qto: the helper module and the operators                     *)

IsMesh(o) == o.type = "MESH"

\* Mutant: the selection unfiltered.
AllSelectedObjects(sel) == sel

\* [o for o in context.selected_objects if o.type == "MESH"]
SelectedMeshObjects(sel) == SelectSeq(sel, IsMesh)

RECURSIVE SumOf(_, _)
\* The float sum of field f over a list of objects.
SumOf(objs, f) ==
    IF objs = << >> THEN 0 ELSE objs[1][f] + SumOf(Tail(objs), f)

\* helper.calculate_height(obj)
CalculateHeight(o) == PyFloat(o.height)
\* helper.calculate_volumes(objs, context)
CalculateVolumes(objs) == PyFloat(SumOf(objs, "volume"))
\* helper.calculate_formwork_area(objs, context)
CalculateFormworkArea(objs) == PyFloat(SumOf(objs, "formwork"))
\* helper.calculate_edges_lengths(objs, context)
CalculateEdgesLengths(objs) == PyFloat(SumOf(objs, "edges"))
\* helper.calculate_faces_areas(objs, context)
CalculateFacesAreas(objs) == PyFloat(SumOf(objs, "faces"))

\* The handles of a list of objects, as a helper call is logged.
Handles(objs) == [i \in 1..Len(objs) |-> objs[i].h]

HelperCall(name, objs) == [api |-> name, objs |-> Handles(objs)]

RECURSIVE HeightSum(_)
\* result = 0; for obj in ...: result += helper.calculate_height(obj): the
\* left fold of + over the list, from the int 0.
HeightSum(objs) ==
    IF objs = << >> THEN PyInt(0)
    ELSE PyAdd(HeightSum(SubSeq(objs, 1, Len(objs) - 1)), CalculateHeight(objs[Len(objs)]))

\* The result ExecuteQtoMethod.execute computes for the mesh list.
ExecuteResult(method, meshes) ==
    CASE method = "HEIGHT" -> HeightSum(meshes)
      [] method = "VOLUME" -> CalculateVolumes(meshes)
      [] method = "FORMWORK" -> CalculateFormworkArea(meshes)
      [] OTHER -> PyInt(0)

\* The helper calls ExecuteQtoMethod.execute makes for the mesh list.
ExecuteHelperCalls(method, meshes) ==
    CASE method = "HEIGHT" ->
              [i \in 1..Len(meshes) |-> HelperCall("calculate_height", <<meshes[i]>>)]
      [] method = "VOLUME" -> << HelperCall("calculate_volumes", meshes) >>
      [] method = "FORMWORK" -> << HelperCall("calculate_formwork_area", meshes) >>
      [] OTHER -> << >>

\* An operator's execute has stored its result and returned {"FINISHED"}.
Finished(op, result) ==
    qto' = [qto EXCEPT !.qto_result = Str(Round3(result)),
                       !.operator = op,
                       !.returned = "FINISHED"]

QtoFrame ==
    /\ pc' = "done"
    /\ UNCHANGED <<schema, unit_scale, props, objects, collections, id_map, edited_objs>>
    /\ UNCHANGED <<parent_collection, exportVars, selected_objects, type_in>>

\* CalculateEdgeLengths: poll, then execute.
CalculateEdgeLengths ==
    /\ pc = "qto"
    /\ selected_objects # << >> /\ qto.active_object
    /\ LET meshes == SelectedMeshObjects(selected_objects)
       IN /\ calls' = Append(calls, HelperCall("calculate_edges_lengths", meshes))
          /\ Finished("calculate_edge_lengths", CalculateEdgesLengths(meshes))
    /\ UNCHANGED elements
    /\ QtoFrame

\* CalculateFaceAreas: poll, then execute.
CalculateFaceAreas ==
    /\ pc = "qto"
    /\ selected_objects # << >> /\ qto.active_object
    /\ LET meshes == SelectedMeshObjects(selected_objects)
       IN /\ calls' = Append(calls, HelperCall("calculate_faces_areas", meshes))
          /\ Finished("calculate_face_areas", CalculateFacesAreas(meshes))
    /\ UNCHANGED elements
    /\ QtoFrame

\* CalculateObjectVolumes: poll, then execute.
CalculateObjectVolumes ==
    /\ pc = "qto"
    /\ selected_objects # << >> /\ qto.active_object
    /\ LET meshes == SelectedMeshObjects(selected_objects)
       IN /\ calls' = Append(calls, HelperCall("calculate_volumes", meshes))
          /\ Finished("calculate_object_volumes", CalculateVolumes(meshes))
    /\ UNCHANGED elements
    /\ QtoFrame

\* ExecuteQtoMethod: poll, then execute.
ExecuteQtoMethod ==
    /\ pc = "qto"
    /\ selected_objects # << >>
    /\ LET selected_mesh_objects == SelectedMeshObjects(selected_objects)
       IN /\ calls' = calls \o ExecuteHelperCalls(qto.qto_methods, selected_mesh_objects)
          /\ Finished("execute_qto_method", ExecuteResult(qto.qto_methods, selected_mesh_objects))
    /\ UNCHANGED elements
    /\ QtoFrame

\* The result QuantifyObjects._execute computes for one object.
QuantifyResult(method, o) ==
    CASE method = "HEIGHT" -> CalculateHeight(o)
      [] method = "VOLUME" -> CalculateVolumes(<<o>>)
      [] method = "FORMWORK" -> CalculateFormworkArea(<<o>>)
      [] OTHER -> PyInt(0)

\* The helper call QuantifyObjects._execute makes for one object.
QuantifyHelperCalls(method, o) ==
    CASE method = "HEIGHT" -> << HelperCall("calculate_height", <<o>>) >>
      [] method = "VOLUME" -> << HelperCall("calculate_volumes", <<o>>) >>
      [] method = "FORMWORK" -> << HelperCall("calculate_formwork_area", <<o>>) >>
      [] OTHER -> << >>

\* The id the file gives the next entity it creates.
NextId(els) == (CHOOSE n \in DOMAIN els : \A m \in DOMAIN els : m <= n) + 1

\* Mutant: a zero result is written like any other.
NeverFalsy(x) == FALSE

\* `not result` for a number.
Falsy(x) == x.v = 0

RECURSIVE QuantifyLoop(_, _, _, _)
\* The loop of QuantifyObjects._execute over the mesh objects left, from
\* the log and the file so far: the log and the file at its end.
QuantifyLoop(objs, p, log, els) ==
    IF objs = << >> THEN [calls |-> log, elements |-> els]
    ELSE LET o == objs[1]
         IN IF o.ifc_definition_id = 0
            THEN QuantifyLoop(Tail(objs), p, log, els)
            ELSE IF Falsy(QuantifyResult(p.qto_methods, o))
            THEN QuantifyLoop(Tail(objs), p,
                              log \o QuantifyHelperCalls(p.qto_methods, o), els)
            ELSE LET result == Round3(QuantifyResult(p.qto_methods, o))
                     new == NextId(els)
                     entity == [class |-> "IfcElementQuantity",
                                product |-> o.ifc_definition_id,
                                Name |-> p.qto_name,
                                Quantities |-> [name |-> p.prop_name, value |-> result]]
                 IN QuantifyLoop(Tail(objs), p,
                        log \o QuantifyHelperCalls(p.qto_methods, o) \o
                        << [api |-> "pset.add_qto", product |-> o.ifc_definition_id,
                            name |-> p.qto_name, returned |-> new],
                           [api |-> "pset.edit_qto", qto |-> new,
                            properties |-> [name |-> p.prop_name, value |-> result]],
                           [api |-> "PsetData.load", id |-> o.ifc_definition_id] >>,
                        els @@ (new :> entity))

\* QuantifyObjects: poll, then _execute.
QuantifyObjects ==
    /\ pc = "qto"
    /\ selected_objects # << >>
    /\ LET end == QuantifyLoop(SelectedMeshObjects(selected_objects), qto, calls, elements)
       IN /\ calls' = end.calls
          /\ elements' = end.elements
    /\ qto' = [qto EXCEPT !.operator = "quantify_objects", !.returned = "FINISHED"]
    /\ QtoFrame

---------------------------------------------------------------------------
(* core/type.py: assign_type                                               *)

\* Mutant: any representation is preferred to the body one.
AnyRepresentationFirst(t) == IF t.any # None THEN t.any ELSE t.body

\* representation = get_body_representation(element), or failing that
\* get_any_representation(element).
Representation(t) == IF t.body # None THEN t.body ELSE t.any

\* The calls of assign_type(ifc, geometry, type_tool, element, type), t being
\* its arguments and what the tools answer.
AssignTypeCalls(t) ==
    << [api |-> "type.assign_type", related_object |-> t.element, relating_type |-> t.type],
       [api |-> "get_body_representation", element |-> t.element] >>
    \o (IF t.body = None
        THEN << [api |-> "get_any_representation", element |-> t.element] >>
        ELSE << >>)
    \o << [api |-> "get_object", element |-> t.element] >>
    \o (IF Representation(t) # None
        THEN << [api |-> "has_dynamic_voids", obj |-> t.obj],
                [api |-> "switch_representation", obj |-> t.obj,
                 representation |-> Representation(t), should_reload |-> FALSE,
                 enable_dynamic_voids |-> t.dynamic_voids, is_global |-> FALSE] >>
        ELSE << >>)
    \o << [api |-> "disable_editing", obj |-> t.obj] >>

\* One call of core.type.assign_type.
AssignType ==
    /\ pc = "assign_type"
    /\ pc' = "done"
    /\ calls' = calls \o AssignTypeCalls(type_in)
    /\ UNCHANGED <<sceneVars, parent_collection, exportVars, qtoVars, type_in>>

---------------------------------------------------------------------------
(* IfcExporter.export and the steps it runs                                *)

\* The most export() calls in a row.
MaxRuns == 2

RECURSIVE LastPart(_, _)
\* s.split(sep)[-1]: what follows the last sep of s, all of s without one.
\* A string is the sequence of its characters.
LastPart(str, sep) ==
    IF str = << >> THEN << >>
    ELSE IF str[Len(str)] = sep THEN << >>
    ELSE Append(LastPart(SubSeq(str, 1, Len(str) - 1), sep), str[Len(str)])

\* extension = self.ifc_export_settings.output_file.split(".")[-1]
Extension(output_file) == LastPart(output_file, ".")

\* os.path.basename
Basename(path) == LastPart(path, "/")

Ifc == <<"i", "f", "c">>
IfcZip == <<"i", "f", "c", "z", "i", "p">>
IfcJson == <<"i", "f", "c", "j", "s", "o", "n">>

\* The writes export makes once the syncs are done: the file itself, the
\* zip holding a temporary .ifc, or the JSON of a known version.
WriteCalls(st) ==
    LET extension == Extension(st.output_file)
    IN CASE extension = IfcZip ->
              << [api |-> "file.write", path |-> <<"t", "m", "p">>],
                 [api |-> "write_output", path |-> st.output_file, format |-> "ifczip"] >>
         [] extension = Ifc ->
              << [api |-> "write_output", path |-> st.output_file, format |-> "ifc"] >>
         [] extension = IfcJson /\ st.json_version \in {"4", "5a"} ->
              << [api |-> "write_output", path |-> st.output_file, format |-> "ifcjson"] >>
         [] OTHER -> << >>

\* Mutant: the syncs run whether or not the project is being authored.
AlwaysSync(st) == "sync_placements"

\* Where export goes after set_header.
AfterHeader(st) == IF st.is_authoring THEN "sync_placements" ELSE "write"

\* export(), up to the end of set_header. Each export starts its own log.
Export ==
    /\ pc \in {"export", "done"}
    /\ runs < MaxRuns
    /\ runs' = runs + 1
    /\ header' = [name |-> Basename(settings.output_file), set |-> TRUE]
    /\ pc' = AfterHeader(settings)
    /\ calls' = << [api |-> "set_header"] >>
                \o (IF AfterHeader(settings) = "sync_placements"
                    THEN << [api |-> "sync_object_placements_and_deletions"] >>
                    ELSE << >>)
    /\ idx' = 1
    /\ to_delete' = << >>
    /\ UNCHANGED <<sceneVars, parent_collection, settings, pending, qtoVars, type_in>>

\* Mutant: the objects that still exist are the ones deleted.
ShouldDeleteInverted(o) == o.alive

\* should_delete(obj): reading obj.name raises for a removed data block.
ShouldDelete(o) == ~o.alive

\* One iteration of the loop over IfcStore.id_map.items(). A material is
\* skipped by `continue`; for a removed object sync_object_placement raises
\* ReferenceError, which is passed over.
SyncEntry ==
    /\ pc = "sync_placements"
    /\ idx <= Len(id_map)
    /\ LET ifc_definition_id == id_map[idx][1]
           h == id_map[idx][2]
           obj == objects[h]
       IN IF obj.kind = "Material"
          THEN UNCHANGED <<calls, elements, parent_collection, to_delete>>
          ELSE /\ IF obj.alive
                  THEN LET placed == ElementsAfterPlacement(elements, h)
                       IN /\ calls' = calls \o PlacementCalls(h) \o ContainerCalls(placed, h)
                          /\ elements' = ElementsAfterContainer(placed, h)
                          /\ parent_collection' = ContainerSync(placed, h).parent_collection
                  ELSE UNCHANGED <<calls, elements, parent_collection>>
               /\ to_delete' = IF ShouldDelete(obj)
                               THEN Append(to_delete, ifc_definition_id)
                               ELSE to_delete
    /\ idx' = idx + 1
    /\ UNCHANGED <<pc, schema, unit_scale, props, objects, collections, id_map, edited_objs>>
    /\ UNCHANGED <<settings, pending, header, runs, qtoVars, type_in>>

\* The ids of a list, as a set.
Range(seq) == { seq[i] : i \in 1..Len(seq) }

RECURSIVE RemovalCalls(_)
\* The calls of the loop over to_delete.
RemovalCalls(ids) ==
    IF ids = << >> THEN << >>
    ELSE << [api |-> "unlink_element", product |-> ids[1]],
            [api |-> "root.remove_product", product |-> ids[1]] >>
         \o RemovalCalls(Tail(ids))

\* The file without the products of `ids`: root.remove_product deletes the
\* entity and the relations that named it.
WithoutProducts(els, ids) ==
    [i \in DOMAIN els \ ids |->
        [els[i] EXCEPT !.container = IF @ \in ids THEN None ELSE @,
                       !.aggregate = IF @ \in ids THEN None ELSE @]]

\* The loop over to_delete, once the iteration over id_map is over:
\* IfcStore.unlink_element takes the entry out of id_map.
DeleteProducts ==
    /\ pc = "sync_placements"
    /\ idx > Len(id_map)
    /\ calls' = calls \o RemovalCalls(to_delete)
    /\ id_map' = SelectSeq(id_map, LAMBDA e : e[1] \notin Range(to_delete))
    /\ elements' = WithoutProducts(elements, Range(to_delete))
    /\ pc' = "sync_edited"
    /\ UNCHANGED <<schema, unit_scale, props, objects, collections, edited_objs>>
    /\ UNCHANGED <<parent_collection, exportVars, qtoVars, type_in>>

\* for obj in IfcStore.edited_objs.copy(): the copy is taken.
CopyEdited ==
    /\ pc = "sync_edited"
    /\ pc' = "edited_loop"
    /\ pending' = [copy |-> edited_objs, left |-> edited_objs]
    /\ calls' = Append(calls, [api |-> "sync_edited_objects"])
    /\ UNCHANGED <<sceneVars, parent_collection, settings, idx, to_delete, header, runs>>
    /\ UNCHANGED <<qtoVars, type_in>>

\* Mutant: a material is updated like an object.
EditedCallsByName(m) ==
    IF m = None THEN << >>
    ELSE IF ~objects[m].alive THEN << >>
    ELSE << [api |-> "bim.update_representation", obj |-> objects[m].name] >>

\* The call the loop body of sync_edited_objects makes for member m: none
\* for a falsy one; for an object obj.name is read first, which raises
\* ReferenceError when it was removed.
EditedCalls(m) ==
    IF m = None THEN << >>
    ELSE IF objects[m].kind = "Material"
    THEN << [api |-> "update_style_colours", obj |-> m] >>
    ELSE IF ~objects[m].alive THEN << >>
    ELSE << [api |-> "bim.update_representation", obj |-> objects[m].name] >>

\* The data blocks an update may mark as edited while it runs.
Touched == {2}

\* One iteration of the loop of sync_edited_objects, in the order the set
\* yields its members. An update that runs may add to IfcStore.edited_objs.
UpdateEdited ==
    /\ pc = "edited_loop"
    /\ \E m \in pending.left :
          /\ pending' = [pending EXCEPT !.left = @ \ {m}]
          /\ calls' = calls \o EditedCalls(m)
          /\ \E added \in SUBSET Touched :
                /\ (EditedCalls(m) = << >> => added = {})
                /\ edited_objs' = edited_objs \cup added
    /\ UNCHANGED <<pc, schema, unit_scale, props, objects, collections, elements, id_map>>
    /\ UNCHANGED <<parent_collection, settings, idx, to_delete, header, runs, qtoVars, type_in>>

\* IfcStore.edited_objs.clear(), once the loop is over.
ClearEdited ==
    /\ pc = "edited_loop"
    /\ pending.left = {}
    /\ calls' = Append(calls, [api |-> "edited_objs.clear", members |-> edited_objs])
    /\ edited_objs' = {}
    /\ pc' = "write"
    /\ UNCHANGED <<schema, unit_scale, props, objects, collections, elements, id_map>>
    /\ UNCHANGED <<parent_collection, exportVars, qtoVars, type_in>>

\* The end of export: the output is written according to its extension.
Write ==
    /\ pc = "write"
    /\ calls' = calls \o WriteCalls(settings)
    /\ pc' = "done"
    /\ UNCHANGED <<sceneVars, parent_collection, exportVars, qtoVars, type_in>>

---------------------------------------------------------------------------
(* Values the variables of an operation that is not running hold           *)

NoSettings == [output_file |-> << >>, json_version |-> "", is_authoring |-> FALSE]
NoHeader == [name |-> << >>, set |-> FALSE]
NoPending == [copy |-> {}, left |-> {}]
NoQto == [qto_methods |-> "", qto_name |-> "", prop_name |-> "", qto_result |-> "",
          active_object |-> FALSE, operator |-> "", returned |-> ""]
NoTypeIn == [element |-> None, type |-> None, obj |-> None, body |-> None, any |-> None,
             dynamic_voids |-> FALSE]

ExportIdle ==
    /\ settings = NoSettings
    /\ idx = 0
    /\ to_delete = << >>
    /\ pending = NoPending
    /\ header = NoHeader
    /\ runs = 0

QtoIdle ==
    /\ selected_objects = << >>
    /\ qto = NoQto

---------------------------------------------------------------------------
(* sync_object_placement on its own: one object, its element, the units    *)
(* and the georeference offset drawn from bounded sets.                    *)

\* 10.0 in fixed point: a coordinate large enough for rtol to count.
Far == 10 * One

UnitScales == { [num |-> 1, den |-> 1], [num |-> 1, den |-> 1000] }

\* The same rotation with one entry 0.00011, resp. 0.00012, short of 1.0.
RotSkewA == << <<One - Atol - 1, 0, 0>>, <<0, One, 0>>, <<0, 0, One>> >>
RotSkewB == << <<One - Atol - 2, 0, 0>>, <<0, One, 0>>, <<0, 0, One>> >>

BlenderMatrices == { Mat(r, <<x, 0, 0>>) : r \in {RotId, RotZ90}, x \in {0, Far} }

IfcTargets ==
    { Mat(r, <<x, 0, 0>>) :
        r \in {RotId, RotZ90, RotSkewA, RotSkewB},
        x \in {0, Atol, Atol + 1, Far, Far + Atol + 5, Far + 2 * Atol + 5} }

GeoProps ==
    { [has_blender_offset |-> hb, blender_eastings |-> e, blender_northings |-> 0,
       blender_orthogonal_height |-> 0,
       blender_x_axis_abscissa |-> ax[1], blender_x_axis_ordinate |-> ax[2]] :
        hb \in BOOLEAN, e \in {0, One}, ax \in { <<1, 0>>, <<0, 1>> } }

\* An object data block.
Obj(name, alive, id, m, ot, uc) ==
    [kind |-> "Object", alive |-> alive, name |-> name, ifc_definition_id |-> id,
     matrix_world |-> m, blender_offset_type |-> ot, users_collection |-> uc]

\* An IFC entity.
Entity(cls, plc, container, aggregate) ==
    [class |-> cls, ObjectPlacement |-> plc, container |-> container, aggregate |-> aggregate]

InitPlacement ==
    /\ pc = "sync_object_placement"
    /\ calls = << >>
    /\ schema \in {"IFC4"}
    /\ unit_scale \in UnitScales
    /\ props \in GeoProps
    /\ \E alive \in BOOLEAN, bm \in BlenderMatrices,
          ot \in {"OBJECT_PLACEMENT", "CARTESIAN_POINT"} :
          objects = (1 :> Obj("IfcWall/Wall", alive, 1, bm, ot, <<"IfcBuildingStorey/S">>))
    /\ collections = << >>
    /\ \E cls \in {"IfcWall", "IfcSite", "IfcWallType"} :
       \E plc \in {NoPlacement} \cup { UnscaleTranslation(t, unit_scale) : t \in IfcTargets } :
          elements = (1 :> Entity(cls,
                                  IF HasObjectPlacement(schema, cls) THEN plc ELSE NoPlacement,
                                  None, None))
    /\ id_map = << <<1, 1>> >>
    /\ edited_objs = {}
    /\ parent_collection = ""
    /\ ExportIdle
    /\ QtoIdle
    /\ type_in = NoTypeIn

NextPlacement == SyncObjectPlacement

SpecPlacement == InitPlacement /\ [][NextPlacement]_vars

\* Some entry of the two matrices differs by more than the fixed tolerance.
DiffersBeyondAtol(a, b) == \E i \in Idx4 : \E j \in Idx4 : Abs(a[i][j] - b[i][j]) > Atol

\* C1: sync_object_placement calls edit_object_placement exactly once when
\* the element has an ObjectPlacement and some entry of the object's world
\* matrix differs from the entry of the IFC placement matrix (translation
\* scaled by unit_scale, converted by global2local under the Blender
\* offset) by more than the fixed tolerance 0.0001; otherwise it makes no
\* call and leaves the IFC placement unchanged.
C1_FixedTolerance ==
    [][ (pc = "sync_object_placement" /\ pc' = "done") =>
          LET o == objects[1]
              e == elements[1]
              diverged == /\ HasObjectPlacement(schema, e.class)
                          /\ DiffersBeyondAtol(IfcMatrix(o, e, unit_scale, props),
                                               o.matrix_world)
          IN IF diverged
             THEN calls' = << [api |-> "edit_object_placement", obj |-> 1] >>
             ELSE calls' = << >> /\ elements' = elements ]_vars

---------------------------------------------------------------------------
(* sync_object_container on its own: the object X (handle 1), the objects  *)
(* named like the collections A and B (handles 2, 3), the collection tree  *)
(* and the element's relations drawn from bounded sets.                    *)

ElementClasses ==
    { <<"IFC2X3", c>> : c \in {"IfcProject", "IfcWall", "IfcSite", "IfcGrid", "IfcAnnotation"} }
    \cup
    { <<"IFC4", c>> : c \in {"IfcProject", "IfcProjectLibrary", "IfcWall", "IfcSite",
                             "IfcGrid", "IfcAnnotation"} }

\* The object named like collection A: absent, not linked to IFC, or linked
\* to an entity of one of these classes.
ParentStates ==
    { [alive |-> FALSE, id |-> 2, class |-> "IfcBuildingStorey"],
      [alive |-> TRUE, id |-> 0, class |-> "IfcBuildingStorey"],
      [alive |-> TRUE, id |-> 2, class |-> "IfcBuildingStorey"],
      [alive |-> TRUE, id |-> 2, class |-> "IfcElementAssembly"],
      [alive |-> TRUE, id |-> 2, class |-> "IfcProject"] }

InitContainer ==
    /\ pc = "sync_object_container"
    /\ calls = << >>
    /\ unit_scale = [num |-> 1, den |-> 1]
    /\ props \in { p \in GeoProps : ~p.has_blender_offset /\ p.blender_eastings = 0
                                     /\ p.blender_x_axis_abscissa = 1 }
    /\ \E sc \in ElementClasses, own \in BOOLEAN, xalive \in BOOLEAN,
          pa \in ParentStates, balive \in BOOLEAN,
          container \in {None, 2, 3}, aggregate \in {None, 2, 3} :
       \E uc \in { <<"A">>, <<"B">>, <<"B", "A">> } \cup (IF own THEN { <<"X">> } ELSE {}),
          achildren \in SUBSET ({"B"} \cup (IF own THEN {"X"} ELSE {})),
          bchildren \in SUBSET (IF own THEN {"X"} ELSE {}) :
          /\ schema = sc[1]
          /\ collections =
                << [name |-> "A", children |-> achildren],
                   [name |-> "B", children |-> bchildren] >>
                \o (IF own THEN << [name |-> "X", children |-> {}] >> ELSE << >>)
          /\ objects =
                (1 :> Obj("X", xalive, 1, Identity, "OBJECT_PLACEMENT", uc)) @@
                (2 :> Obj("A", pa.alive, pa.id, Identity, "OBJECT_PLACEMENT", <<"A">>)) @@
                (3 :> Obj("B", balive, 3, Identity, "OBJECT_PLACEMENT", <<"B">>))
          /\ elements =
                (1 :> Entity(sc[2], NoPlacement, container, aggregate)) @@
                (2 :> Entity(pa.class, NoPlacement, None, None)) @@
                (3 :> Entity("IfcBuildingStorey", NoPlacement, None, None))
    /\ id_map = << <<1, 1>> >>
    /\ edited_objs = {}
    /\ parent_collection = ""
    /\ ExportIdle
    /\ QtoIdle
    /\ type_in = NoTypeIn

NextContainer == SyncObjectContainer

SpecContainer == InitContainer /\ [][NextContainer]_vars

\* A step that is one complete sync_object_container call.
ContainerStep == pc = "sync_object_container" /\ pc' = "done"

\* C2: once the parent is found in the collection hierarchy, one
\* sync_object_container makes at most one assignment call:
\* assign_container(structure_obj=parent_obj, element_obj=obj) iff the parent
\* is a spatial structure element, the element is not, and the parent is
\* not the element's container; assign_object(relating_obj=parent_obj,
\* related_obj=obj) iff that pair of conditions fails and the parent is not
\* the element's aggregate; no call when the parent already is the
\* container (resp. aggregate).
C2_OneAssignment ==
    [][ (ContainerStep
         /\ parent_collection' # ""
         /\ ObjectsGet(objects, parent_collection') # None
         /\ objects[ObjectsGet(objects, parent_collection')].ifc_definition_id # 0) =>
          LET parent_obj == ObjectsGet(objects, parent_collection')
              parent == objects[parent_obj].ifc_definition_id
              element == elements[objects[1].ifc_definition_id]
              spatial_pair ==
                  /\ IsA(schema, elements[parent].class, "IfcSpatialStructureElement")
                  /\ ~IsA(schema, element.class, "IfcSpatialStructureElement")
              to_container == [api |-> "assign_container", structure_obj |-> parent_obj,
                               element_obj |-> 1]
              to_aggregate == [api |-> "assign_object", relating_obj |-> parent_obj,
                               related_obj |-> 1]
          IN /\ Len(calls') <= 1
             /\ (calls' = <<to_container>>) <=> (spatial_pair /\ parent # element.container)
             /\ (calls' = <<to_aggregate>>) <=> (~spatial_pair /\ parent # element.aggregate)
             /\ (calls' = << >>) <=>
                   \/ (spatial_pair /\ parent = element.container)
                   \/ (~spatial_pair /\ parent = element.aggregate) ]_vars

\* C2's case has happened: the parent was found and the element was
\* assigned to it as its container.
C2_Witness ==
    /\ pc = "done"
    /\ parent_collection = "A"
    /\ Len(calls) = 1
    /\ calls[1].api = "assign_container"
    /\ calls[1].structure_obj = 2

\* C6: no assignment and no error for the project (IFC2X3) or a context
\* (other schemas); for a spatial element, a grid or an element with its own
\* collection whose collection is no collection's child (also when it has no
\* collection); when no object is named like the parent collection; when
\* that object has ifc_definition_id 0. Any other element takes the object's
\* first users_collection as the parent collection.
C6_NoAssignment ==
    [][ (pc = "sync_object_container" /\ objects[1].alive) =>
          LET o == objects[1]
              cls == elements[o.ifc_definition_id].class
              own == CollectionsGet(collections, o.name)
              context == IF schema = "IFC2X3" THEN IsA(schema, cls, "IfcProject")
                         ELSE IsA(schema, cls, "IfcContext")
              in_tree == \/ IsA(schema, cls, "IfcSpatialStructureElement")
                         \/ IsA(schema, cls, "IfcGrid")
                         \/ (IsA(schema, cls, "IfcElement") /\ own # None)
              orphan == in_tree /\ ~\E i \in 1..Len(collections) :
                                        own # None /\ o.name \in collections[i].children
              no_parent_obj ==
                  /\ parent_collection' # ""
                  /\ \/ ObjectsGet(objects, parent_collection') = None
                     \/ objects[ObjectsGet(objects, parent_collection')].ifc_definition_id = 0
          IN /\ (context \/ orphan \/ no_parent_obj) => (pc' = "done" /\ calls' = << >>)
             /\ (~context /\ ~in_tree) => parent_collection' = o.users_collection[1] ]_vars

\* C6's cases have happened: a sync that settled on a parent collection
\* without a usable object and made no call.
C6_Witness ==
    /\ pc = "done"
    /\ calls = << >>
    /\ parent_collection = "B"
    /\ ObjectsGet(objects, "B") = None
    /\ objects[1].users_collection[1] = "B"
    /\ elements[1].class = "IfcAnnotation"

---------------------------------------------------------------------------
(* The quantity take-off operators: the selection, the method and the      *)
(* names drawn from bounded sets.                                          *)

\* The most objects selected.
MaxSelected == 2

\* What the helper measures on an object: all zero, ordinary values, values
\* that round to 0.0 or up.
Measures ==
    { [height |-> 0, volume |-> 0, formwork |-> 0, edges |-> 0, faces |-> 0],
      [height |-> 250000, volume |-> 123449, formwork |-> 0, edges |-> 400000,
       faces |-> 600051],
      [height |-> 40, volume |-> 0, formwork |-> 1234560, edges |-> 25, faces |-> 99960] }

\* The objects that can be selected at position i.
Selectable(i) ==
    { [h |-> i, type |-> t, ifc_definition_id |-> id,
       height |-> m.height, volume |-> m.volume, formwork |-> m.formwork,
       edges |-> m.edges, faces |-> m.faces] :
        t \in {"MESH", "CURVE"}, id \in {0, i}, m \in Measures }

Selections ==
    UNION { { s \in [1..n -> UNION { Selectable(i) : i \in 1..n }] :
                \A i \in 1..n : s[i] \in Selectable(i) } : n \in 0..MaxSelected }

\* The products of the file the selected objects can be linked to.
QtoElements == [i \in 1..MaxSelected |-> Entity("IfcWall", NoPlacement, None, None)]

InitQto ==
    /\ pc = "qto"
    /\ calls = << >>
    /\ schema = "IFC4"
    /\ unit_scale = [num |-> 1, den |-> 1]
    /\ props \in { p \in GeoProps : ~p.has_blender_offset /\ p.blender_eastings = 0
                                     /\ p.blender_x_axis_abscissa = 1 }
    /\ objects = << >>
    /\ collections = << >>
    /\ elements = QtoElements
    /\ id_map = << >>
    /\ edited_objs = {}
    /\ parent_collection = ""
    /\ ExportIdle
    /\ selected_objects \in Selections
    /\ \E m \in {"HEIGHT", "VOLUME", "FORMWORK", "NONE"}, active \in BOOLEAN :
          qto = [NoQto EXCEPT !.qto_methods = m, !.qto_name = "Qto_Base",
                              !.prop_name = "NetVolume", !.active_object = active]
    /\ type_in = NoTypeIn

NextQto ==
    \/ CalculateEdgeLengths
    \/ CalculateFaceAreas
    \/ CalculateObjectVolumes
    \/ ExecuteQtoMethod
    \/ QuantifyObjects

SpecQto == InitQto /\ [][NextQto]_vars

\* The selected objects of type MESH.
MeshSelection == SelectSeq(selected_objects, LAMBDA o : o.type = "MESH")

\* The objects QuantifyObjects must write a quantity for: the selected mesh
\* objects linked to IFC whose result for the method is not zero.
Quantified ==
    SelectSeq(selected_objects,
              LAMBDA o : /\ o.type = "MESH"
                         /\ o.ifc_definition_id # 0
                         /\ \/ (qto.qto_methods = "HEIGHT" /\ o.height # 0)
                            \/ (qto.qto_methods = "VOLUME" /\ o.volume # 0)
                            \/ (qto.qto_methods = "FORMWORK" /\ o.formwork # 0))

\* The result of the chosen method for one object, rounded to 3 decimals.
QuantityOf(o) ==
    Round3(PyFloat(CASE qto.qto_methods = "HEIGHT" -> o.height
                     [] qto.qto_methods = "VOLUME" -> o.volume
                     [] qto.qto_methods = "FORMWORK" -> o.formwork))

\* The calls of the log made to the property set API.
PsetCalls ==
    SelectSeq(calls, LAMBDA c : c.api \in {"pset.add_qto", "pset.edit_qto", "PsetData.load"})

\* C3: QuantifyObjects._execute writes a quantity for exactly the selected
\* objects that are meshes, are linked to IFC and have a non-zero result for
\* the method: for each, in the order of the selection, pset.add_qto
\* (name=qto_name), pset.edit_qto of the qto just returned with the one
\* property prop_name: the result rounded to 3 decimals, then PsetData.load
\* of the object's id. No other pset call is made, and without such an object
\* the file is unchanged.
C3_QuantifyWrites ==
    (pc = "done" /\ qto.operator = "quantify_objects") =>
        /\ Len(PsetCalls) = 3 * Len(Quantified)
        /\ \A k \in 1..Len(Quantified) :
              LET o == Quantified[k]
                  add == PsetCalls[3 * k - 2]
                  edit == PsetCalls[3 * k - 1]
                  load == PsetCalls[3 * k]
              IN /\ add.api = "pset.add_qto"
                 /\ add.product = o.ifc_definition_id
                 /\ add.name = qto.qto_name
                 /\ edit.api = "pset.edit_qto"
                 /\ edit.qto = add.returned
                 /\ edit.properties = [name |-> qto.prop_name, value |-> QuantityOf(o)]
                 /\ load.api = "PsetData.load"
                 /\ load.id = o.ifc_definition_id
        /\ DOMAIN elements = 1..(MaxSelected + Len(Quantified))
        /\ \A i \in 1..MaxSelected : elements[i] = QtoElements[i]
        /\ qto.returned = "FINISHED"

\* C3's case has happened: of two selected objects one got its quantity,
\* the other was passed over.
C3_Witness ==
    /\ pc = "done"
    /\ qto.operator = "quantify_objects"
    /\ Len(selected_objects) = 2
    /\ Len(Quantified) = 1
    /\ Len(PsetCalls) = 3
    /\ PsetCalls[2].properties.value.v = 123400

\* The result a calculate operator must store, before rounding.
Calculated ==
    CASE qto.operator = "calculate_edge_lengths" -> PyFloat(SumOf(MeshSelection, "edges"))
      [] qto.operator = "calculate_face_areas" -> PyFloat(SumOf(MeshSelection, "faces"))
      [] qto.operator = "calculate_object_volumes" -> PyFloat(SumOf(MeshSelection, "volume"))
      [] qto.operator = "execute_qto_method" ->
            CASE qto.qto_methods = "HEIGHT" ->
                    IF MeshSelection = << >> THEN PyInt(0)
                    ELSE PyFloat(SumOf(MeshSelection, "height"))
              [] qto.qto_methods = "VOLUME" -> PyFloat(SumOf(MeshSelection, "volume"))
              [] qto.qto_methods = "FORMWORK" -> PyFloat(SumOf(MeshSelection, "formwork"))
              [] OTHER -> PyInt(0)

\* The helper the operator must have called on the whole mesh list; "" for
\* the per-object height and for an unrecognised method.
ListHelper ==
    CASE qto.operator = "calculate_edge_lengths" -> "calculate_edges_lengths"
      [] qto.operator = "calculate_face_areas" -> "calculate_faces_areas"
      [] qto.operator = "calculate_object_volumes" -> "calculate_volumes"
      [] qto.operator = "execute_qto_method" /\ qto.qto_methods = "VOLUME" -> "calculate_volumes"
      [] qto.operator = "execute_qto_method" /\ qto.qto_methods = "FORMWORK" ->
            "calculate_formwork_area"
      [] OTHER -> ""

\* C4: the calculate operators pass the helper exactly the selected objects
\* of type MESH, store the string of the result rounded to 3 decimals in
\* qto_result and return FINISHED; ExecuteQtoMethod's result is the sum of
\* calculate_height over the mesh objects (HEIGHT), calculate_volumes
\* (VOLUME) or calculate_formwork_area (FORMWORK) of the mesh list, and 0 for
\* another method or for an empty mesh list under HEIGHT.
C4_CalculateStores ==
    (pc = "done" /\ qto.operator \in {"calculate_edge_lengths", "calculate_face_areas",
                                      "calculate_object_volumes", "execute_qto_method"}) =>
        /\ qto.returned = "FINISHED"
        /\ qto.qto_result = Str(Round3(Calculated))
        /\ IF ListHelper # ""
           THEN calls = << [api |-> ListHelper, objs |-> Handles(MeshSelection)] >>
           ELSE IF qto.qto_methods = "HEIGHT"
           THEN calls = [i \in 1..Len(MeshSelection) |->
                            [api |-> "calculate_height", objs |-> <<MeshSelection[i].h>>]]
           ELSE calls = << >>

\* C4's case has happened: with a mesh and a non-mesh object selected, the
\* height of the mesh alone was stored.
C4_Witness ==
    /\ pc = "done"
    /\ qto.operator = "execute_qto_method"
    /\ qto.qto_methods = "HEIGHT"
    /\ Len(selected_objects) = 2
    /\ selected_objects[1].type = "CURVE" /\ selected_objects[1].height = 250000
    /\ selected_objects[2].type = "MESH" /\ selected_objects[2].height = 250000
    /\ qto.qto_result = "2.5"

---------------------------------------------------------------------------
(* assign_type: the element, the type, the object and the element's        *)
(* representations drawn from bounded sets.                                *)

\* An element with a body representation has a representation.
TypeInputs ==
    { t \in [element : {1, 2}, type : {3, 4}, obj : {None, 5}, body : {None, 10, 11},
             any : {None, 10, 12, 13}, dynamic_voids : BOOLEAN] :
        t.body # None => t.any # None }

InitType ==
    /\ pc = "assign_type"
    /\ calls = << >>
    /\ schema = "IFC4"
    /\ unit_scale = [num |-> 1, den |-> 1]
    /\ props \in { p \in GeoProps : ~p.has_blender_offset /\ p.blender_eastings = 0
                                     /\ p.blender_x_axis_abscissa = 1 }
    /\ objects = << >>
    /\ collections = << >>
    /\ elements = << >>
    /\ id_map = << >>
    /\ edited_objs = {}
    /\ parent_collection = ""
    /\ ExportIdle
    /\ QtoIdle
    /\ type_in \in TypeInputs

NextType == AssignType

SpecType == InitType /\ [][NextType]_vars

\* The switch_representation calls of the log.
SwitchCalls == SelectSeq(calls, LAMBDA c : c.api = "switch_representation")

\* C9: assign_type runs type.assign_type(related_object=element,
\* relating_type=type) first and disable_editing(obj) last; in between it
\* calls switch_representation at most once, exactly when the element has a
\* body representation or, failing that, any representation, passing the
\* body one whenever there is one, with should_reload=False and
\* is_global=False; without a representation it does not switch but still
\* disables editing.
C9_AssignTypeOrder ==
    pc = "done" =>
        /\ calls[1] = [api |-> "type.assign_type", related_object |-> type_in.element,
                       relating_type |-> type_in.type]
        /\ calls[Len(calls)] = [api |-> "disable_editing", obj |-> type_in.obj]
        /\ \A i \in 2..Len(calls) : calls[i].api # "type.assign_type"
        /\ \A i \in 1..(Len(calls) - 1) : calls[i].api # "disable_editing"
        /\ Len(SwitchCalls) <= 1
        /\ Len(SwitchCalls) = 1 <=> (type_in.body # None \/ type_in.any # None)
        /\ \A i \in 1..Len(SwitchCalls) :
              /\ SwitchCalls[i].representation =
                    (IF type_in.body # None THEN type_in.body ELSE type_in.any)
              /\ SwitchCalls[i].should_reload = FALSE
              /\ SwitchCalls[i].is_global = FALSE
              /\ SwitchCalls[i].obj = type_in.obj

\* C9's case has happened: an element with a body and another
\* representation was switched to the body one, and editing was disabled.
C9_Witness ==
    /\ pc = "done"
    /\ type_in.body = 10 /\ type_in.any = 12
    /\ Len(SwitchCalls) = 1
    /\ SwitchCalls[1].representation = 10
    /\ calls[Len(calls)].api = "disable_editing"

---------------------------------------------------------------------------
(* export(): a small project (project P, storey S, wall W, a removed wall  *)
(* D, a material M that may be removed too), of which id_map holds some    *)
(* entries in some order.                                                  *)

\* The most entries of IfcStore.id_map.
MaxEntries == 2

MaterialBlock(name, alive, id) ==
    [kind |-> "Material", alive |-> alive, name |-> name, ifc_definition_id |-> id,
     matrix_world |-> Identity, blender_offset_type |-> "", users_collection |-> << >>]

\* The wall stands where IFC has it, or one unit further along x.
WallMatrices == { Identity, Mat(RotId, <<One, 0, 0>>) }

ProjectObjects(wm, malive) ==
    (1 :> Obj("P", TRUE, 1, Identity, "OBJECT_PLACEMENT", <<"P">>)) @@
    (2 :> Obj("S", TRUE, 2, Identity, "OBJECT_PLACEMENT", <<"S">>)) @@
    (3 :> Obj("W", TRUE, 3, wm, "OBJECT_PLACEMENT", <<"S">>)) @@
    (4 :> Obj("D", FALSE, 4, Identity, "OBJECT_PLACEMENT", <<"S">>)) @@
    (5 :> MaterialBlock("M", malive, 5))

ProjectCollections ==
    << [name |-> "P", children |-> {"S"}], [name |-> "S", children |-> {}] >>

ProjectElements(saggregate, wcontainer) ==
    (1 :> Entity("IfcProject", NoPlacement, None, None)) @@
    (2 :> Entity("IfcBuildingStorey", NoPlacement, None, saggregate)) @@
    (3 :> Entity("IfcWall", Identity, wcontainer, None)) @@
    (4 :> Entity("IfcWall", NoPlacement, 2, None)) @@
    (5 :> Entity("IfcMaterial", NoPlacement, None, None))

\* Metres without an offset, or millimetres with a rotated offset.
ProjectUnits ==
    { [scale |-> [num |-> 1, den |-> 1],
       props |-> [has_blender_offset |-> FALSE, blender_eastings |-> 0,
                  blender_northings |-> 0, blender_orthogonal_height |-> 0,
                  blender_x_axis_abscissa |-> 1, blender_x_axis_ordinate |-> 0]],
      [scale |-> [num |-> 1, den |-> 1000],
       props |-> [has_blender_offset |-> TRUE, blender_eastings |-> 1000 * One,
                  blender_northings |-> 2000 * One, blender_orthogonal_height |-> 0,
                  blender_x_axis_abscissa |-> 0, blender_x_axis_ordinate |-> 1]] }

\* The id_map entries: the ids are the handles.
IdMaps ==
    UNION { { [i \in 1..n |-> <<f[i], f[i]>>] :
                f \in { g \in [1..n -> 1..5] : \A i, j \in 1..n : i # j => g[i] # g[j] } } :
            n \in 0..MaxEntries }

OutputFiles ==
    { <<"m", ".", "i", "f", "c">>,
      <<"d", "/", "m", ".", "i", "f", "c", "z", "i", "p">>,
      <<"m", ".", "i", "f", "c", "j", "s", "o", "n">>,
      <<"a", ".", "b", ".", "i", "f", "c">>,
      <<"m", ".", "i", "f", "c", ".", "b", "a", "k">>,
      <<"i", "f", "c">> }

ExportSettings ==
    { [output_file |-> f, json_version |-> v, is_authoring |-> au] :
        f \in OutputFiles, v \in {"4"}, au \in BOOLEAN }
    \cup
    { [output_file |-> <<"m", ".", "i", "f", "c", "j", "s", "o", "n">>,
       json_version |-> v, is_authoring |-> au] : v \in {"5a", "3"}, au \in BOOLEAN }

ProjectScene ==
    /\ schema = "IFC4"
    /\ \E u \in ProjectUnits : unit_scale = u.scale /\ props = u.props
    /\ \E wm \in WallMatrices, malive \in BOOLEAN : objects = ProjectObjects(wm, malive)
    /\ collections = ProjectCollections
    /\ \E saggregate \in {None, 1}, wcontainer \in {None, 2} :
          elements = ProjectElements(saggregate, wcontainer)

InitExport ==
    /\ pc = "export"
    /\ calls = << >>
    /\ ProjectScene
    /\ id_map \in IdMaps
    /\ edited_objs \in { {}, {None, 3, 4, 5} }
    /\ parent_collection = ""
    /\ settings \in ExportSettings
    /\ idx = 0
    /\ to_delete = << >>
    /\ pending = NoPending
    /\ header = NoHeader
    /\ runs = 0
    /\ QtoIdle
    /\ type_in = NoTypeIn

NextExport ==
    \/ Export
    \/ SyncEntry
    \/ DeleteProducts
    \/ CopyEdited
    \/ UpdateEdited
    \/ ClearEdited
    \/ Write

SpecExport == InitExport /\ [][NextExport]_vars

---------------------------------------------------------------------------
(* sync_edited_objects on its own, over every set of edited data blocks    *)

InitEdited ==
    /\ pc = "sync_edited"
    /\ calls = << >>
    /\ ProjectScene
    /\ id_map = [i \in 1..5 |-> <<i, i>>]
    /\ edited_objs \in SUBSET {None, 2, 3, 4, 5}
    /\ parent_collection = ""
    /\ ExportIdle
    /\ QtoIdle
    /\ type_in = NoTypeIn

NextEdited ==
    \/ CopyEdited
    \/ UpdateEdited
    \/ ClearEdited

SpecEdited == InitEdited /\ [][NextEdited]_vars

---------------------------------------------------------------------------
(* The claims about export and its syncs                                   *)

\* The positions of the log holding a call to one of the APIs.
Positions(apis) == { i \in 1..Len(calls) : calls[i].api \in apis }

RemovalApis == {"unlink_element", "root.remove_product"}
PlacementApis == {"edit_object_placement", "assign_container", "assign_object"}
UpdateApis == {"update_style_colours", "bim.update_representation"}
WriteApis == {"file.write", "write_output"}

\* The entries of id_map that are no material and whose object is gone.
GoneEntries == SelectSeq(id_map, LAMBDA e : /\ objects[e[2]].kind # "Material"
                                            /\ ~objects[e[2]].alive)

\* C5: sync_object_placements_and_deletions removes (unlink_element, then
\* root.remove_product, once each) exactly the id_map entries that are no
\* material and whose object no longer exists; a material entry is neither
\* synced nor removed; a ReferenceError while syncing an entry stops neither
\* the other entries nor that entry's test for deletion; the removals all
\* come after the iteration over id_map.
C5_Deletions ==
    [][ /\ (pc = "sync_placements" /\ pc' = "sync_edited") =>
              /\ idx = Len(id_map) + 1
              /\ Positions(RemovalApis) = {}
              /\ Len(calls') = Len(calls) + 2 * Len(GoneEntries)
              /\ \A k \in 1..Len(GoneEntries) :
                    /\ calls'[Len(calls) + 2 * k - 1] =
                          [api |-> "unlink_element", product |-> GoneEntries[k][1]]
                    /\ calls'[Len(calls) + 2 * k] =
                          [api |-> "root.remove_product", product |-> GoneEntries[k][1]]
              /\ DOMAIN elements' =
                    DOMAIN elements \ { GoneEntries[k][1] : k \in 1..Len(GoneEntries) }
        /\ (pc = "sync_placements" /\ pc' = "sync_placements") =>
              /\ idx' = idx + 1
              /\ id_map' = id_map
              /\ DOMAIN elements' = DOMAIN elements
              /\ objects[id_map[idx][2]].kind = "Material" =>
                    (calls' = calls /\ elements' = elements /\ to_delete' = to_delete)
              /\ Positions(RemovalApis) = {} ]_vars

\* C5's case has happened: the removed object's product was taken out of
\* the file, an entry whose object exists was kept.
C5_Witness ==
    /\ pc = "sync_edited"
    /\ runs = 1
    /\ \E i \in Positions(RemovalApis) : calls[i].api = "root.remove_product"
                                         /\ calls[i].product = 4
    /\ 4 \notin DOMAIN elements
    /\ Len(id_map) = 1
    /\ objects[id_map[1][2]].alive

\* The output file ends in .ifc or .ifczip, or is all of ifc or ifczip.
HasIfcExtension(f) ==
    \E e \in {Ifc, IfcZip} :
        \/ f = e
        \/ /\ Len(f) > Len(e)
           /\ SubSeq(f, Len(f) - Len(e) + 1, Len(f)) = e
           /\ f[Len(f) - Len(e)] = "."

\* C7: in every run of export set_header comes first, then, only when the
\* project is being authored, sync_object_placements_and_deletions followed
\* by sync_edited_objects, then the write of the output; the output is
\* written at most once, exactly once for the extension ifc or ifczip; when
\* not authoring no placement, container, deletion or representation sync
\* comes before the write.
C7_ExportOrder ==
    /\ runs >= 1 => (header.set /\ calls # << >> /\ Positions({"set_header"}) = {1})
    /\ \A i \in Positions({"sync_object_placements_and_deletions", "sync_edited_objects",
                           "edited_objs.clear"}
                          \cup PlacementApis \cup RemovalApis \cup UpdateApis) :
          /\ settings.is_authoring
          /\ i > 1
          /\ \A j \in Positions(WriteApis) : i < j
    /\ \A i \in Positions(PlacementApis \cup RemovalApis) :
          /\ \E j \in Positions({"sync_object_placements_and_deletions"}) : j < i
          /\ \A j \in Positions({"sync_edited_objects"}) : i < j
    /\ \A i \in Positions(UpdateApis) : \E j \in Positions({"sync_edited_objects"}) : j < i
    /\ Cardinality(Positions({"write_output"})) <= 1
    /\ \A i \in Positions({"write_output"}) : calls[i].path = settings.output_file
    /\ pc = "done" =>
          /\ HasIfcExtension(settings.output_file) =>
                Cardinality(Positions({"write_output"})) = 1
          /\ settings.is_authoring =>
                /\ Cardinality(Positions({"sync_object_placements_and_deletions"})) = 1
                /\ Cardinality(Positions({"sync_edited_objects"})) = 1
          /\ ~settings.is_authoring =>
                Positions(WriteApis \cup {"set_header"}) = 1..Len(calls)

\* C7's case has happened: an authoring export that synced a placement,
\* updated a representation and wrote its zip.
C7_Witness ==
    /\ pc = "done"
    /\ settings.is_authoring
    /\ Extension(settings.output_file) = IfcZip
    /\ Positions({"edit_object_placement"}) # {}
    /\ Positions({"bim.update_representation"}) # {}
    /\ Cardinality(Positions({"write_output"})) = 1

\* The calls of the log made for the member m of edited_objs.
CallsFor(m) ==
    IF m = None THEN {}
    ELSE { i \in Positions(UpdateApis) :
             \/ (calls[i].api = "update_style_colours" /\ calls[i].obj = m)
             \/ (calls[i].api = "bim.update_representation" /\ calls[i].obj = objects[m].name) }

\* C8: sync_edited_objects processes each truthy member of the copy of
\* edited_objs taken at its start exactly once (update_style_colours for a
\* material, bim.update_representation for another object, whose removal
\* shows as a ReferenceError that is passed over), skips the falsy ones,
\* and leaves edited_objs empty on return, the members added meanwhile
\* being cleared unprocessed.
C8_EditedObjects ==
    /\ [](pc = "write" =>
            /\ edited_objs = {}
            /\ pending.left = {}
            /\ \A m \in pending.copy \ {None} :
                  IF objects[m].kind = "Material"
                  THEN /\ Cardinality(CallsFor(m)) = 1
                       /\ \A i \in CallsFor(m) : calls[i].api = "update_style_colours"
                  ELSE IF objects[m].alive
                  THEN /\ Cardinality(CallsFor(m)) = 1
                       /\ \A i \in CallsFor(m) : calls[i].api = "bim.update_representation"
                  ELSE CallsFor(m) = {}
            /\ Positions(UpdateApis) = UNION { CallsFor(m) : m \in pending.copy })
    /\ [][pc = "sync_edited" => pending'.copy = edited_objs]_vars
    /\ [][pc = "edited_loop" => pending'.copy = pending.copy]_vars

\* C8's case has happened: a falsy, a removed and two live members were
\* gone through, and the storey marked meanwhile was cleared unprocessed.
C8_Witness ==
    /\ pc = "write"
    /\ pending.copy = {None, 3, 4, 5}
    /\ Cardinality(Positions(UpdateApis)) = 2
    /\ \E i \in Positions({"edited_objs.clear"}) : 2 \in calls[i].members
    /\ CallsFor(2) = {}
    /\ edited_objs = {}

\* C10: with edit_object_placement, assign_container, assign_object and
\* unlink_element acting as their names say, a second run of
\* sync_object_placements_and_deletions on the unchanged scene edits no
\* placement, assigns no container or aggregate and removes nothing.
C10_Idempotent ==
    runs >= 2 => Positions(PlacementApis \cup RemovalApis) = {}

\* C10's case has happened: the second sync went over the moved wall and
\* the storey that the first one had placed and assigned.
C10_Witness ==
    /\ runs = 2
    /\ pc = "sync_edited"
    /\ Len(id_map) = 2
    /\ id_map[1][2] = 3
    /\ id_map[2][2] = 2
    /\ objects[3].matrix_world # Identity
    /\ elements[3].container = 2
    /\ elements[2].aggregate = 1

===========================================================================
